---- MODULE Spec2Model ----
(***************************************************************************)
(* Model of plugins/inputs/kube_inventory/kube_state.go: the Gather method *)
(* of KubernetesInventory, initClient, and the package-level registry      *)
(* availableCollectors.                                                    *)
(*                                                                         *)
(* A Gather call is a process with a program counter; every goroutine it   *)
(* starts is a unit with its own state.  Strings that the code transforms  *)
(* (the bearer token) are sequences of one-character strings.              *)
(***************************************************************************)
EXTENDS Integers, Sequences, FiniteSets, TLC

VARIABLES
    availableCollectors, \* keys of the package-level map (line 109)
    ki,                  \* the KubernetesInventory objects, by instance slot
    constructed,         \* per object: successful newClient results stored so far
    crashed,             \* the process died of an unrecovered panic
    pc,                  \* per Gather call: position in Gather / initClient
    inst,                \* per Gather call: the receiver ki
    idx,                 \* per Gather call: loop index (exclude loop, include loop)
    units,               \* per Gather call: the goroutines it launched
    wg,                  \* per Gather call: the WaitGroup counter
    acc,                 \* per Gather call: record batches added to the accumulator
    ret,                 \* per Gather call: the value Gather returned
    regAtStart,          \* per Gather call: the registry keys when the call began
    hadClient,           \* per Gather call: the test of line 77 found a client
    loaded               \* per object: the fields as the configuration loader set them

vars == <<availableCollectors, ki, constructed, crashed, pc, inst, idx,
          units, wg, acc, ret, regAtStart, hadClient, loaded>>

-----------------------------------------------------------------------------
(* Bounds of the model *)

\* longest resource_include list a configuration carries
MaxIncludeLen == 2

\* most clients one object is given before newClient stops succeeding
MaxConstructed == 2

-----------------------------------------------------------------------------
(* The registry and the configuration values *)

\* the keys of availableCollectors as the package initialises it
Kinds == {"daemonsets", "deployments", "nodes", "persistentvolumes",
          "persistentvolumeclaims", "pods", "statefulsets"}

\* a fixed enumeration of the keys, used only to name the goroutines of the
\* range loop (the loop itself visits the keys in any order)
KindSeq == <<"daemonsets", "deployments", "nodes", "persistentvolumes",
             "persistentvolumeclaims", "pods", "statefulsets">>

\* the zero value a map lookup yields for a missing key: a nil func
NilFunc == "nil"

\* the nil *client
NilClient == [id |-> 0, token |-> <<>>]

\* the exported fields of a new object (lines 157-160): no lists, no token
NoConfig ==
    [ResourceInclude |-> <<>>, ResourceExclude |-> <<>>,
     BearerToken |-> "", BearerTokenString |-> <<>>]

\* goroutine slots of one Gather call
Slots == 1 .. Len(KindSeq)

\* a slot that holds no goroutine
NoUnit == [f |-> NilFunc, st |-> "none"]

\* names a resource_include list is drawn from; "configmaps" has no collector
IncludeNames == {"pods", "configmaps"}

SeqsUpTo(S, n) == UNION {[1 .. m -> S] : m \in 0 .. n}

\* the resource_include lists a configuration is drawn from
Includes == SeqsUpTo(IncludeNames, MaxIncludeLen)

\* the resource_exclude lists a configuration is drawn from
Excludes == {<<>>, <<"nodes">>, <<"pods">>, <<"nodes", "pods">>}

\* bearer_token: no file, a readable file, a file that cannot be read
BearerTokenPaths == {"", "/run/token", "/run/missing"}

\* bearer_token_string: unset, or a literal token
BearerTokenStrings == {<<>>, <<"s">>}

\* the files ioutil.ReadFile can read, with their content
Files == ("/run/token" :> <<" ", "t", "\n">>)

\* the objects of the process, and the one used when calls are sequential
Instances == {"a", "b"}

SeqInstances == {"a"}

\* the Gather calls that can be in progress, and the one used when calls
\* are sequential
Calls == {"g", "h"}

SeqCalls == {"g"}

Range(s) == {s[k] : k \in DOMAIN s}

-----------------------------------------------------------------------------
(* Pure functions *)

Whitespace == {" ", "\t", "\n", "\r"}

RECURSIVE TrimLeft(_)
TrimLeft(s) ==
    IF s # <<>> /\ Head(s) \in Whitespace THEN TrimLeft(Tail(s)) ELSE s

RECURSIVE TrimRight(_)
TrimRight(s) ==
    IF s # <<>> /\ s[Len(s)] \in Whitespace
    THEN TrimRight(SubSeq(s, 1, Len(s) - 1))
    ELSE s

\* strings.TrimSpace
TrimSpace(s) == TrimRight(TrimLeft(s))

\* ioutil.ReadFile
ReadFile(path) ==
    IF path \in DOMAIN Files
    THEN [err |-> FALSE, data |-> Files[path]]
    ELSE [err |-> TRUE, data |-> <<>>]

\* availableCollectors[n]: the routine registered under n, or nil
Lookup(n) == IF n \in availableCollectors THEN n ELSE NilFunc

\* an initClient in which a literal token, when set, wins over the file
UsesFileUnlessLiteral(i) ==
    ki[i].BearerToken # "" /\ ki[i].BearerTokenString = <<>>

\* if ki.BearerToken != "" (line 126)
UsesFile(i) == ki[i].BearerToken # ""

\* a runtime in which calling a nil func does nothing
NilCallNoop == "ok"

\* f(ctx, acc, ki) with f nil (line 99): a nil pointer dereference panic
NilCall == "panic"

\* an initClient that, having read the token file, forgets its path
LoadTokenForgetsFile(i, data) ==
    [ki[i] EXCEPT !.BearerTokenString = TrimSpace(data), !.BearerToken = ""]

\* ki.BearerTokenString = strings.TrimSpace(string(token)) (line 131)
LoadToken(i, data) == [ki[i] EXCEPT !.BearerTokenString = TrimSpace(data)]

\* a Gather that builds a client on every call
NeedInitAlways(i) == TRUE

\* if ki.client == nil (line 77)
NeedInit(i) == ki[i].client = NilClient

\* an initClient that deletes the excluded names whatever the include list
AppliesExcludeAlways(i) == TRUE

\* if len(ki.ResourceInclude) == 0 in initClient (line 120)
AppliesExclude(i) == Len(ki[i].ResourceInclude) = 0

\* if len(ki.ResourceInclude) == 0 in Gather (line 86)
RangesRegistry(i) == Len(ki[i].ResourceInclude) = 0

\* a Gather that keeps a handle even when initClient reports an error
StoredClientAnyway(i, res) ==
    [id |-> constructed[i] + 1, token |-> ki[i].BearerTokenString]

\* what the assignment of line 78 stores in ki.client
StoredClient(i, res) == res

\* a wait that lets one goroutine go unjoined
WaitAllButOne(p) == wg[p] <= 1

\* wg.Wait(): returns when the counter is zero
WaitDone(p) == wg[p] = 0

\* a Gather that returns the first collector failure
GatherFirstError(p) ==
    IF \E k \in DOMAIN units[p] : units[p][k].st = "failed"
    THEN "errCollector"
    ELSE "nil"

\* return nil (line 106)
GatherResult(p) == "nil"

\* the state of a Gather call that is about to run
Fresh(p) ==
    /\ idx' = [idx EXCEPT ![p] = 1]
    /\ units' = [units EXCEPT ![p] = [k \in Slots |-> NoUnit]]
    /\ wg' = [wg EXCEPT ![p] = 0]
    /\ acc' = [acc EXCEPT ![p] = [n \in Kinds |-> 0]]
    /\ ret' = [ret EXCEPT ![p] = "none"]

Idle(p) == pc[p] \in {"idle", "returned"}

-----------------------------------------------------------------------------
Init ==
    /\ availableCollectors = Kinds
    /\ ki = [i \in Instances |->
                [client |-> NilClient,
                 ResourceInclude |-> <<>>,
                 ResourceExclude |-> <<>>,
                 BearerToken |-> "",
                 BearerTokenString |-> <<>>]]
    /\ constructed = [i \in Instances |-> 0]
    /\ crashed = FALSE
    /\ pc = [p \in Calls |-> "idle"]
    /\ inst = [p \in Calls |-> CHOOSE i \in Instances : TRUE]
    /\ idx = [p \in Calls |-> 1]
    /\ units = [p \in Calls |-> [k \in Slots |-> NoUnit]]
    /\ wg = [p \in Calls |-> 0]
    /\ acc = [p \in Calls |-> [n \in Kinds |-> 0]]
    /\ ret = [p \in Calls |-> "none"]
    /\ regAtStart = [p \in Calls |-> Kinds]
    /\ hadClient = [p \in Calls |-> FALSE]
    /\ loaded = [i \in Instances |-> NoConfig]

-----------------------------------------------------------------------------
(* The plugin factory and the configuration loader *)

\* inputs.Add("kube_inventory", ...): the factory creates a new object with
\* no client and no lists; the calls made on the object it replaces are
\* forgotten
NewInstance(i) ==
    /\ ~crashed
    /\ \A q \in Calls : inst[q] = i => Idle(q)
    /\ ki' = [ki EXCEPT ![i] =
                [client |-> NilClient,
                 ResourceInclude |-> <<>>,
                 ResourceExclude |-> <<>>,
                 BearerToken |-> "",
                 BearerTokenString |-> <<>>]]
    /\ constructed' = [constructed EXCEPT ![i] = 0]
    /\ pc' = [q \in Calls |-> IF inst[q] = i THEN "idle" ELSE pc[q]]
    /\ idx' = [q \in Calls |-> IF inst[q] = i THEN 1 ELSE idx[q]]
    /\ units' = [q \in Calls |->
                    IF inst[q] = i THEN [k \in Slots |-> NoUnit] ELSE units[q]]
    /\ wg' = [q \in Calls |-> IF inst[q] = i THEN 0 ELSE wg[q]]
    /\ acc' = [q \in Calls |->
                    IF inst[q] = i THEN [n \in Kinds |-> 0] ELSE acc[q]]
    /\ ret' = [q \in Calls |-> IF inst[q] = i THEN "none" ELSE ret[q]]
    /\ hadClient' = [q \in Calls |-> IF inst[q] = i THEN FALSE ELSE hadClient[q]]
    /\ loaded' = [loaded EXCEPT ![i] = NoConfig]
    /\ UNCHANGED <<availableCollectors, crashed, inst, regAtStart>>

\* the configuration loader sets the exported fields (lines 20-25) of an
\* object on which Gather has not been called yet
Configure(i, inc, exc, path, lit) ==
    /\ ~crashed
    /\ \A q \in Calls : inst[q] = i => pc[q] = "idle"
    /\ ki[i].client = NilClient
    /\ ki' = [ki EXCEPT ![i].ResourceInclude = inc,
                        ![i].ResourceExclude = exc,
                        ![i].BearerToken = path,
                        ![i].BearerTokenString = lit]
    /\ loaded' = [loaded EXCEPT ![i] =
                    [ResourceInclude |-> inc, ResourceExclude |-> exc,
                     BearerToken |-> path, BearerTokenString |-> lit]]
    /\ UNCHANGED <<availableCollectors, constructed, crashed, pc, inst, idx,
                   units, wg, acc, ret, regAtStart, hadClient>>

-----------------------------------------------------------------------------
(* Gather *)

\* entry of Gather and the test of line 77
GatherStart(p, i) ==
    /\ ~crashed
    /\ Idle(p)
    /\ inst' = [inst EXCEPT ![p] = i]
    /\ pc' = [pc EXCEPT ![p] = IF NeedInit(i) THEN "initClient" ELSE "launch"]
    /\ regAtStart' = [regAtStart EXCEPT ![p] = availableCollectors]
    /\ hadClient' = [hadClient EXCEPT ![p] = ~NeedInit(i)]
    /\ Fresh(p)
    /\ UNCHANGED <<availableCollectors, ki, constructed, crashed, loaded>>

\* one iteration of the loop of lines 121-123
InitClientDelete(p) ==
    LET i == inst[p] IN
    /\ ~crashed
    /\ pc[p] = "initClient"
    /\ AppliesExclude(i)
    /\ idx[p] <= Len(ki[i].ResourceExclude)
    /\ availableCollectors' =
            availableCollectors \ {ki[i].ResourceExclude[idx[p]]}
    /\ idx' = [idx EXCEPT ![p] = idx[p] + 1]
    /\ UNCHANGED <<ki, constructed, crashed, pc, inst, units, wg, acc, ret,
                   regAtStart, hadClient, loaded>>

\* lines 126-132, reached when the loop above is over or was skipped
InitClientToken(p) ==
    LET i == inst[p]
        file == ReadFile(ki[i].BearerToken)
    IN
    /\ ~crashed
    /\ pc[p] = "initClient"
    /\ ~AppliesExclude(i) \/ idx[p] > Len(ki[i].ResourceExclude)
    /\ IF UsesFile(i) /\ file.err
       THEN \* return nil, err; Gather stores the nil and returns err
            /\ ki' = [ki EXCEPT ![i].client = StoredClient(i, NilClient)]
            /\ pc' = [pc EXCEPT ![p] = "returned"]
            /\ ret' = [ret EXCEPT ![p] = "errReadFile"]
       ELSE /\ ki' = [ki EXCEPT ![i] =
                        IF UsesFile(i) THEN LoadToken(i, file.data) ELSE @]
            /\ pc' = [pc EXCEPT ![p] = "newClient"]
            /\ ret' = ret
    /\ idx' = [idx EXCEPT ![p] = 1]
    /\ UNCHANGED <<availableCollectors, constructed, crashed, inst, units, wg,
                   acc, regAtStart, hadClient, loaded>>

\* newClient(url, namespace, token, timeout, tls): a handle, or an error
NewClientResults(i) ==
    { [err |-> TRUE, client |-> NilClient] } \cup
    IF constructed[i] < MaxConstructed
    THEN { [err |-> FALSE,
            client |-> [id |-> constructed[i] + 1,
                        token |-> ki[i].BearerTokenString]] }
    ELSE {}

\* line 134 and the assignment and test of lines 78-80
InitClientNew(p) ==
    LET i == inst[p] IN
    /\ ~crashed
    /\ pc[p] = "newClient"
    /\ \E res \in NewClientResults(i) :
          /\ ki' = [ki EXCEPT ![i].client = StoredClient(i, res.client)]
          /\ IF res.err
             THEN /\ pc' = [pc EXCEPT ![p] = "returned"]
                  /\ ret' = [ret EXCEPT ![p] = "errNewClient"]
                  /\ constructed' = constructed
             ELSE /\ pc' = [pc EXCEPT ![p] = "launch"]
                  /\ ret' = ret
                  /\ constructed' = [constructed EXCEPT ![i] = @ + 1]
    /\ UNCHANGED <<availableCollectors, crashed, inst, idx, units, wg, acc,
                   regAtStart, hadClient, loaded>>

\* the slots of the range loop that hold a key not yet visited
Unvisited(p) ==
    {k \in Slots : KindSeq[k] \in availableCollectors /\ units[p][k].st = "none"}

\* wg.Add(1); go func(f){...}(f)
Launch(p, k, f) ==
    /\ units' = [units EXCEPT ![p][k] = [f |-> f, st |-> "running"]]
    /\ wg' = [wg EXCEPT ![p] = @ + 1]

\* one iteration of the loop of lines 87-93
LaunchRange(p) ==
    LET i == inst[p] IN
    /\ ~crashed
    /\ pc[p] = "launch"
    /\ RangesRegistry(i)
    /\ \E k \in Unvisited(p) : Launch(p, k, KindSeq[k])
    /\ UNCHANGED <<availableCollectors, ki, constructed, crashed, pc, inst,
                   idx, acc, ret, regAtStart, hadClient, loaded>>

\* one iteration of the loop of lines 95-101
LaunchInclude(p) ==
    LET i == inst[p] IN
    /\ ~crashed
    /\ pc[p] = "launch"
    /\ ~RangesRegistry(i)
    /\ idx[p] <= Len(ki[i].ResourceInclude)
    /\ Launch(p, idx[p], Lookup(ki[i].ResourceInclude[idx[p]]))
    /\ idx' = [idx EXCEPT ![p] = idx[p] + 1]
    /\ UNCHANGED <<availableCollectors, ki, constructed, crashed, pc, inst,
                   acc, ret, regAtStart, hadClient, loaded>>

\* the launching loop of the call is over
LoopDone(p) ==
    LET i == inst[p] IN
    IF RangesRegistry(i)
    THEN Unvisited(p) = {}
    ELSE idx[p] > Len(ki[i].ResourceInclude)

\* wg.Wait() and return nil (lines 104-106)
GatherReturn(p) ==
    /\ ~crashed
    /\ pc[p] = "launch"
    /\ LoopDone(p)
    /\ WaitDone(p)
    /\ pc' = [pc EXCEPT ![p] = "returned"]
    /\ ret' = [ret EXCEPT ![p] = GatherResult(p)]
    /\ UNCHANGED <<availableCollectors, ki, constructed, crashed, inst, idx,
                   units, wg, acc, regAtStart, hadClient, loaded>>

-----------------------------------------------------------------------------
(* The goroutines *)

\* a collector routine: it either adds its records to the accumulator or
\* fails internally and reports that itself; it returns nothing
Collect(p, k, ok) ==
    acc' = [acc EXCEPT ![p][units[p][k].f] = IF ok THEN @ + 1 ELSE @]

\* defer wg.Done(); f(ctx, acc, ki) with f a registered routine
UnitRun(p, k) ==
    /\ ~crashed
    /\ units[p][k].st = "running"
    /\ units[p][k].f # NilFunc
    /\ \E ok \in BOOLEAN :
          /\ Collect(p, k, ok)
          /\ units' = [units EXCEPT ![p][k].st = IF ok THEN "ok" ELSE "failed"]
    /\ wg' = [wg EXCEPT ![p] = @ - 1]
    /\ UNCHANGED <<availableCollectors, ki, constructed, crashed, pc, inst,
                   idx, ret, regAtStart, hadClient, loaded>>

\* defer wg.Done(); f(ctx, acc, ki) with f nil: the call panics, the
\* deferred wg.Done() runs, and the panic goes on unrecovered
UnitPanic(p, k) ==
    /\ ~crashed
    /\ units[p][k].st = "running"
    /\ units[p][k].f = NilFunc
    /\ units' = [units EXCEPT ![p][k].st = NilCall]
    /\ wg' = [wg EXCEPT ![p] = @ - 1]
    /\ UNCHANGED <<availableCollectors, ki, constructed, crashed, pc, inst,
                   idx, acc, ret, regAtStart, hadClient, loaded>>

\* the runtime ends the process on the unrecovered panic of a goroutine
Crash ==
    /\ ~crashed
    /\ \E p \in Calls, k \in Slots : units[p][k].st = "panic"
    /\ crashed' = TRUE
    /\ UNCHANGED <<availableCollectors, ki, constructed, pc, inst, idx, units,
                   wg, acc, ret, regAtStart, hadClient, loaded>>

-----------------------------------------------------------------------------
\* sequential calls: one caller, one object at a time
Next ==
    \/ \E i \in SeqInstances : NewInstance(i)
    \/ \E i \in SeqInstances, inc \in Includes, exc \in Excludes,
          path \in BearerTokenPaths, lit \in BearerTokenStrings :
            Configure(i, inc, exc, path, lit)
    \/ \E p \in SeqCalls, i \in SeqInstances : GatherStart(p, i)
    \/ \E p \in Calls : InitClientDelete(p)
    \/ \E p \in Calls : InitClientToken(p)
    \/ \E p \in Calls : InitClientNew(p)
    \/ \E p \in Calls : LaunchRange(p)
    \/ \E p \in Calls : LaunchInclude(p)
    \/ \E p \in Calls : GatherReturn(p)
    \/ \E p \in Calls, k \in Slots : UnitRun(p, k)
    \/ \E p \in Calls, k \in Slots : UnitPanic(p, k)
    \/ Crash

Spec == Init /\ [][Next]_vars

\* the scheduler runs every goroutine that can take a step: the steps of a
\* Gather call and of the goroutines it launched, and the end of a process
\* that panicked; nothing obliges the caller to start another call
Fairness ==
    /\ \A p \in Calls :
          /\ WF_vars(InitClientDelete(p))
          /\ WF_vars(InitClientToken(p))
          /\ WF_vars(InitClientNew(p))
          /\ WF_vars(LaunchRange(p))
          /\ WF_vars(LaunchInclude(p))
          /\ WF_vars(GatherReturn(p))
          /\ \A k \in Slots : WF_vars(UnitRun(p, k)) /\ WF_vars(UnitPanic(p, k))
    /\ WF_vars(Crash)

FairSpec == Init /\ [][Next]_vars /\ Fairness

-----------------------------------------------------------------------------
(* Overlapping calls *)

\* the next step of call p deletes a key of availableCollectors (line 122)
RegistryWriter(p) ==
    /\ pc[p] = "initClient"
    /\ AppliesExclude(inst[p])
    /\ idx[p] <= Len(ki[inst[p]].ResourceExclude)

\* the next step of call p reads availableCollectors: the range of line 87
\* or the lookup of line 100
RegistryReader(p) == pc[p] = "launch" /\ ~LoopDone(p)

\* the runtime ends the process when it detects a map write concurrent with
\* another access of the same map
RaceFatal(p, q) ==
    /\ ~crashed
    /\ p # q
    /\ RegistryWriter(p)
    /\ RegistryWriter(q) \/ RegistryReader(q)
    /\ crashed' = TRUE
    /\ UNCHANGED <<availableCollectors, ki, constructed, pc, inst, idx, units,
                   wg, acc, ret, regAtStart, hadClient, loaded>>

\* the configurations of the two objects when calls overlap: object "a"
\* excludes the resources of the sample configuration (line 51), object "b"
\* includes one of them
ConcConfig(i) ==
    IF i = "a"
    THEN [ResourceInclude |-> <<>>,
          ResourceExclude |-> <<"deployments", "nodes", "statefulsets">>,
          BearerToken |-> "", BearerTokenString |-> <<>>]
    ELSE [ResourceInclude |-> <<"nodes">>,
          ResourceExclude |-> <<>>,
          BearerToken |-> "", BearerTokenString |-> <<>>]

\* the loader configures an object
ConcConfigure(i) ==
    Configure(i, ConcConfig(i).ResourceInclude, ConcConfig(i).ResourceExclude,
              ConcConfig(i).BearerToken, ConcConfig(i).BearerTokenString)

\* which call is made on which object: calls on "b" can overlap each other
\* and a call on "a"
ConcStarts == {<<"g", "a">>, <<"g", "b">>, <<"h", "b">>}

\* a call begins on a configured object, whatever the other call is doing
ConcGatherStart(p, i) ==
    /\ <<p, i>> \in ConcStarts
    /\ loaded[i] = ConcConfig(i)
    /\ GatherStart(p, i)

NextConc ==
    \/ \E i \in Instances : NewInstance(i)
    \/ \E i \in Instances : ConcConfigure(i)
    \/ \E p \in Calls, i \in Instances : ConcGatherStart(p, i)
    \/ \E p \in Calls : InitClientDelete(p)
    \/ \E p \in Calls : InitClientToken(p)
    \/ \E p \in Calls : InitClientNew(p)
    \/ \E p \in Calls : LaunchRange(p)
    \/ \E p \in Calls : LaunchInclude(p)
    \/ \E p \in Calls : GatherReturn(p)
    \/ \E p \in Calls, k \in Slots : UnitRun(p, k)
    \/ \E p \in Calls, k \in Slots : UnitPanic(p, k)
    \/ \E p \in Calls, q \in Calls : RaceFatal(p, q)
    \/ Crash

SpecConc == Init /\ [][NextConc]_vars

-----------------------------------------------------------------------------
(* Vocabulary of the properties *)

\* the errors Gather returns from client construction
ConstructionErrors == {"errReadFile", "errNewClient"}

\* the slots of call p that hold a goroutine
Launched(p) == {k \in Slots : units[p][k].st # "none"}

\* the collectors call p started a goroutine for
LaunchedKinds(p) == {units[p][k].f : k \in Launched(p)} \ {NilFunc}

\* the goroutines call p started for collector n
UnitsOf(p, n) == {k \in Launched(p) : units[p][k].f = n}

\* call p got past client construction and its launching loop is over
AllLaunched(p) ==
    /\ pc[p] \in {"launch", "returned"}
    /\ ret[p] \notin ConstructionErrors
    /\ LoopDone(p)

\* call p runs with an empty / a non-empty resource_include
EmptyInclude(p) == Len(ki[inst[p]].ResourceInclude) = 0

IncludeOf(p) == Range(ki[inst[p]].ResourceInclude)

ExcludeOf(p) == Range(ki[inst[p]].ResourceExclude)

-----------------------------------------------------------------------------
(* C1 *)

\* C1: Gather returns only after every goroutine it launched has finished:
\* a call that has returned has no goroutine still running, and once it has
\* returned nothing more is added to its accumulator.
C1_JoinAll ==
    /\ [](\A p \in Calls :
            pc[p] = "returned" =>
                \A k \in Slots : units[p][k].st # "running")
    /\ [][\A p \in Calls :
            (pc[p] = "returned" /\ pc'[p] = "returned") => acc'[p] = acc[p]]_vars

\* a call returned nil after at least two of its goroutines ran to the end
C1_Witness ==
    \E p \in Calls :
        /\ pc[p] = "returned"
        /\ ret[p] = "nil"
        /\ Cardinality({k \in Slots : units[p][k].st \in {"ok", "failed"}}) >= 2

(* C2 *)

\* C2: once the client exists, collectors that fail internally change
\* nothing for the others: Gather never returns an error after it started
\* launching, and when it returns, every goroutine with a routine has run to
\* its end and every one that did not fail has added its records.
C2_FailureIsolation ==
    \A p \in Calls :
        (pc[p] \in {"launch", "returned"} /\ ret[p] \notin ConstructionErrors) =>
            /\ ret[p] \in {"none", "nil"}
            /\ pc[p] = "returned" =>
                  /\ ret[p] = "nil"
                  /\ \A k \in Launched(p) :
                        units[p][k].f # NilFunc =>
                            units[p][k].st \in {"ok", "failed"}
            /\ \A n \in Kinds :
                  acc[p][n] =
                      Cardinality({k \in UnitsOf(p, n) : units[p][k].st = "ok"})

\* a call returned nil although one collector failed, and another collector
\* of the same call added its records
C2_Witness ==
    \E p \in Calls :
        /\ pc[p] = "returned"
        /\ ret[p] = "nil"
        /\ \E k1, k2 \in Slots :
              /\ units[p][k1].st = "failed"
              /\ units[p][k2].st = "ok"
              /\ acc[p][units[p][k2].f] >= 1

(* C3 *)

\* C3: with a non-empty resource_include, the collectors a call runs are
\* the included names that were registered when the call began, whatever
\* its resource_exclude holds.
C3_IncludePrecedence ==
    \A p \in Calls :
        (AllLaunched(p) /\ ~EmptyInclude(p)) =>
            LaunchedKinds(p) = IncludeOf(p) \cap regAtStart[p]

\* a call that includes and excludes the same registered name ran it
C3_Witness ==
    \E p \in Calls :
        /\ AllLaunched(p)
        /\ pc[p] = "returned"
        /\ IncludeOf(p) \cap ExcludeOf(p) \cap Kinds # {}
        /\ LaunchedKinds(p) = IncludeOf(p) \cap Kinds
        /\ LaunchedKinds(p) # {}

(* C4 *)

\* C4: with an empty resource_include, a call launches the full set of
\* registered collectors minus the names of its own resource_exclude,
\* whether or not it found a client.
C4_ExcludeFiltering ==
    \A p \in Calls :
        (AllLaunched(p) /\ EmptyInclude(p)) =>
            LaunchedKinds(p) = Kinds \ ExcludeOf(p)

(* C5 *)

\* C5: exclusions do not leak across calls: with an empty resource_include,
\* the only collectors a call leaves out are those its own resource_exclude
\* names, whatever earlier calls excluded.
C5_NoLeakAcrossPolls ==
    \A p \in Calls :
        (AllLaunched(p) /\ EmptyInclude(p)) =>
            (Kinds \ LaunchedKinds(p)) \subseteq ExcludeOf(p)

(* C6 *)

\* C6: with empty resource_include and empty resource_exclude a call
\* launches every one of the seven collectors exactly once.
C6_EverythingOnce ==
    \A p \in Calls :
        (AllLaunched(p) /\ EmptyInclude(p) /\ ExcludeOf(p) = {}) =>
            \A n \in Kinds : Cardinality(UnitsOf(p, n)) = 1

(* C7 *)

\* C7: when client construction fails, Gather returns the error, has
\* launched no goroutine and added no record, the object keeps no client,
\* and the next call on the object enters initClient again.
C7_ConstructionFailure ==
    /\ [](\A p \in Calls :
            (pc[p] = "returned" /\ ret[p] \in ConstructionErrors) =>
                /\ Launched(p) = {}
                /\ \A n \in Kinds : acc[p][n] = 0
                /\ ki[inst[p]].client = NilClient)
    /\ [][\A p \in Calls :
            (/\ pc[p] = "returned"
             /\ ret[p] \in ConstructionErrors
             /\ pc'[p] \notin {"returned", "idle"}) => pc'[p] = "initClient"]_vars

\* a call that found no client returned the error of a failed construction
\* after it had applied its resource_exclude
C7_Witness ==
    \E p \in Calls :
        /\ pc[p] = "returned"
        /\ ret[p] \in ConstructionErrors
        /\ ~hadClient[p]
        /\ ExcludeOf(p) # {}

(* C8 *)

\* C8: in a sequence of calls on one object, a client is stored at most
\* once, and a stored client is never replaced (only the factory's new
\* object starts without one).
C8_ClientReuse ==
    /\ [](\A i \in Instances : constructed[i] <= 1)
    /\ [][\A i \in Instances :
            ki[i].client # NilClient =>
                (ki'[i].client = ki[i].client \/ NewInstance(i))]_vars

\* a call that found the client of an earlier call has returned nil
C8_Witness ==
    \E p \in Calls :
        /\ pc[p] = "returned"
        /\ ret[p] = "nil"
        /\ hadClient[p]
        /\ constructed[inst[p]] = 1
        /\ ki[inst[p]].client.id = 1

(* C9 *)

\* C9: a call whose resource_include holds a name that is not registered
\* fails as a whole with a configuration error: the process does not crash,
\* the call does not return nil, and Gather returns no other errors than
\* those of client construction and of configuration resolution.
C9_UnknownIncludeIsError ==
    /\ ~crashed
    /\ \A p \in Calls :
          /\ ret[p] \in {"none", "nil", "errConfig"} \cup ConstructionErrors
          /\ (/\ pc[p] = "returned"
              /\ ret[p] \notin ConstructionErrors
              /\ ~(IncludeOf(p) \subseteq regAtStart[p])) => ret[p] = "errConfig"

(* C11 *)

\* t is data without its leading and trailing whitespace
IsTrimOf(t, data) ==
    /\ t = <<>> \/ (t[1] \notin Whitespace /\ t[Len(t)] \notin Whitespace)
    /\ \E a \in 0 .. Len(data) :
          /\ a + Len(t) <= Len(data)
          /\ t = SubSeq(data, a + 1, a + Len(t))
          /\ \A k \in 1 .. Len(data) :
                (k <= a \/ k > a + Len(t)) => data[k] \in Whitespace

\* C11: the token of a constructed client is the content of the configured
\* token file without its leading and trailing whitespace, whatever literal
\* token is configured too; it is the literal token only when no file is
\* configured.
C11_TokenSelection ==
    \A i \in Instances :
        ki[i].client # NilClient =>
            IF loaded[i].BearerToken # ""
            THEN /\ loaded[i].BearerToken \in DOMAIN Files
                 /\ IsTrimOf(ki[i].client.token, Files[loaded[i].BearerToken])
            ELSE ki[i].client.token = loaded[i].BearerTokenString

\* a client was constructed with the file's token although a different
\* literal token was configured
C11_Witness ==
    \E i \in Instances :
        /\ ki[i].client # NilClient
        /\ loaded[i].BearerToken # ""
        /\ loaded[i].BearerTokenString # <<>>
        /\ ki[i].client.token # loaded[i].BearerTokenString
        /\ Len(ki[i].client.token) < Len(Files[loaded[i].BearerToken])

(* C12 *)

\* C12: every call leaves the registry as the package initialised it.
C12_RegistryUnchanged == availableCollectors = Kinds

(* C14 *)

\* the include entry that slot k of call p was launched for
IncludeAt(p, k) == ki[inst[p]].ResourceInclude[k]

C15_ExclusionScoped ==
    \A p \in Calls :
        ~EmptyInclude(p) =>
            \A k \in Launched(p) :
                IncludeAt(p, k) \in Kinds => units[p][k].f = IncludeAt(p, k)

(* C16 *)

\* C16: within one call no collector is launched more than once.
C16_OneUnitPerCollector ==
    \A p \in Calls : \A n \in Kinds : Cardinality(UnitsOf(p, n)) <= 1

(* C18 *)

\* the configuration fields of object i
ConfigOf(i) ==
    [ResourceInclude |-> ki[i].ResourceInclude,
     ResourceExclude |-> ki[i].ResourceExclude,
     BearerToken |-> ki[i].BearerToken,
     BearerTokenString |-> ki[i].BearerTokenString]

\* C18 as stated: the configuration fields of an object are those the
\* loader set, after any call.
C18_ConfigUnchanged == \A i \in Instances : ConfigOf(i) = loaded[i]

\* C18, amended: the include list, the exclude list and the token file path
\* are those the loader set; the literal token is the one the loader set
\* when no token file is configured, and otherwise either that or the
\* trimmed content of the token file.
C18_ConfigFrame ==
    \A i \in Instances :
        /\ ki[i].ResourceInclude = loaded[i].ResourceInclude
        /\ ki[i].ResourceExclude = loaded[i].ResourceExclude
        /\ ki[i].BearerToken = loaded[i].BearerToken
        /\ loaded[i].BearerToken = "" =>
              ki[i].BearerTokenString = loaded[i].BearerTokenString
        /\ ki[i].BearerTokenString # loaded[i].BearerTokenString =>
              /\ loaded[i].BearerToken \in DOMAIN Files
              /\ IsTrimOf(ki[i].BearerTokenString, Files[loaded[i].BearerToken])

\* a call has returned on an object whose literal token it replaced by the
\* content of the token file
C18_Witness ==
    \E p \in Calls :
        /\ pc[p] = "returned"
        /\ loaded[inst[p]].BearerTokenString # <<>>
        /\ ki[inst[p]].BearerTokenString # loaded[inst[p]].BearerTokenString
        /\ ki[inst[p]].ResourceExclude = loaded[inst[p]].ResourceExclude

(* C13 *)

\* C13: with calls in progress on two objects, no call is about to delete
\* from the registry while another call is about to read it.
C13_RegistryReadOnly ==
    \A p \in Calls, q \in Calls :
        (p # q /\ inst[p] # inst[q]) => ~(RegistryWriter(p) /\ RegistryReader(q))

(* C17 *)

\* C17: also with overlapping calls on one object, the object is given a
\* client at most once and the client it was given stays.
C17_SingleConstruction ==
    \A i \in Instances :
        /\ constructed[i] <= 1
        /\ constructed[i] = 1 => ki[i].client.id = 1

(* C10 *)

\* C10: under fair scheduling every Gather call that has started returns,
\* for every resource_include and resource_exclude.
C10_Termination ==
    \A p \in Calls : (pc[p] \notin {"idle", "returned"}) ~> (pc[p] = "returned")

====
